---- MODULE Spec2Model ----
(***************************************************************************)
(* Model of src/src/parking.py: the ParkingLot coordinator, its spots and  *)
(* the Vehicle record.  Every method of the lot is translated statement by *)
(* statement into an operator over a lot record                            *)
(*   [parking_spots, vehicle_to_spot, available_spots]                     *)
(* that returns the lot after the call together with the exception raised  *)
(* ("ok" when none).  A Python exception leaves every assignment made      *)
(* before the raise in place, so the operators thread the lot through.     *)
(***************************************************************************)
EXTENDS Integers, FiniteSets, Sequences, TLC

\* ---------------------------------------------------------------- bounds
MaxSpotId == 1          \* spot ids 0..MaxSpotId can be registered
NumVehicles == 3        \* number of distinct vehicle ids in play
NumThreads == 2         \* number of threads calling into the lot
\* the threads of SpecThreads, where every statement is a step of its own,
\* and the caller of SpecSnapshot work on a smaller lot
MaxSpotIdThreads == 0   \* spot ids 0..MaxSpotIdThreads
NumVehiclesThreads == 2 \* number of distinct vehicle ids
MaxCallbacks == 2       \* callbacks one firing of an event finds registered
\* the caller of SpecCallbacks, where the registry of callbacks is explicit
NumHandles == 2         \* number of distinct callback handles
MaxRegistered == 2      \* registrations the registry holds at most

\* ------------------------------------------------------------ input sets
VehicleNames == <<"A", "B", "C", "D", "E">>
VehicleIds == {VehicleNames[i] : i \in 1..NumVehicles}
VehicleTypes == {"electric", "Sedan"}
SpotIds == 0..MaxSpotId
\* spot ids a caller may pass: a negative one and every registrable one
SpotIdArgs == (-1)..MaxSpotId
\* spot_type strings a caller may pass; "valet" is an unknown type
SpotTypeArgs == {"standard", "electric", "valet"}
\* the value of the omitted Optional[int] spot_id parameter (Python None)
NoSpotId == -2

\* ---------------------------------------------------------------- Vehicle
\* the value of BaseParkingSpot.vehicle when no vehicle is parked (None)
None == [vehicle_id |-> "", vehicle_type |-> ""]
\* an argument of park_vehicle that is not a Vehicle instance
NotAVehicle == [vehicle_id |-> "", vehicle_type |-> "not a Vehicle"]
Vehicle(vehicle_id, vehicle_type) ==
    [vehicle_id |-> vehicle_id, vehicle_type |-> vehicle_type]
Vehicles == {Vehicle(i, t) : i \in VehicleIds, t \in VehicleTypes}
\* vehicle ids a caller may pass to unpark_vehicle; "" fails the strip() test
VehicleIdArgs == VehicleIds \cup {""}

\* ------------------------------------------------------------------ spots
StandardParkingSpot(spot_id) ==
    [spot_id |-> spot_id, kind |-> "standard", vehicle |-> None]
ElectricVehicleParkingSpot(spot_id) ==
    [spot_id |-> spot_id, kind |-> "electric", vehicle |-> None]

is_available(spot) == spot.vehicle = None

\* StandardParkingSpot.park_vehicle
StandardParkingSpot_park_vehicle(spot, vehicle) ==
    IF vehicle = NotAVehicle THEN [spot |-> spot, err |-> "TypeError"]
    ELSE IF ~is_available(spot) THEN [spot |-> spot, err |-> "AlreadyOccupied"]
    ELSE [spot |-> [spot EXCEPT !.vehicle = vehicle], err |-> "ok"]

\* ElectricVehicleParkingSpot.park_vehicle with the vehicle_type test left out
ElectricVehicleParkingSpot_park_vehicle_any_type(spot, vehicle) ==
    IF vehicle = NotAVehicle THEN [spot |-> spot, err |-> "TypeError"]
    ELSE IF ~is_available(spot) THEN [spot |-> spot, err |-> "AlreadyOccupied"]
    ELSE [spot |-> [spot EXCEPT !.vehicle = vehicle], err |-> "ok"]

\* ElectricVehicleParkingSpot.park_vehicle: the type check precedes the
\* occupancy check
ElectricVehicleParkingSpot_park_vehicle(spot, vehicle) ==
    IF vehicle = NotAVehicle THEN [spot |-> spot, err |-> "TypeError"]
    ELSE IF vehicle.vehicle_type # "electric"
         THEN [spot |-> spot, err |-> "UnsupportedVehicleType"]
    ELSE IF ~is_available(spot) THEN [spot |-> spot, err |-> "AlreadyOccupied"]
    ELSE [spot |-> [spot EXCEPT !.vehicle = vehicle], err |-> "ok"]

\* dynamic dispatch of spot.park_vehicle on the spot's class
spot_park_vehicle(spot, vehicle) ==
    IF spot.kind = "electric"
    THEN ElectricVehicleParkingSpot_park_vehicle(spot, vehicle)
    ELSE StandardParkingSpot_park_vehicle(spot, vehicle)

\* BaseParkingSpot.unpark_vehicle
spot_unpark_vehicle(spot) ==
    IF is_available(spot) THEN [spot |-> spot, err |-> "AlreadyEmpty"]
    ELSE [spot |-> [spot EXCEPT !.vehicle = None], err |-> "ok"]

\* -------------------------------------------------------------------- lot
EmptyMap == [x \in {} |-> 0]
\* ParkingLot.__init__
EmptyLot == [parking_spots |-> EmptyMap,
             vehicle_to_spot |-> EmptyMap,
             available_spots |-> {}]

\* dict assignment d[k] = v and dict.pop(k)
DictSet(d, k, v) == [x \in DOMAIN d \cup {k} |-> IF x = k THEN v ELSE d[x]]
DictPop(d, k) == [x \in DOMAIN d \ {k} |-> d[x]]

\* ParkingLot._trigger_event(event, ...): the event fired, with the spot and
\* the vehicle id passed to the callbacks ("" when none is passed)
trigger_event(event, spot_id, vehicle_id) ==
    << [event |-> event, spot_id |-> spot_id, vehicle_id |-> vehicle_id] >>

\* ParkingLot._get_spot_or_raise: the error it raises, "ok" when it returns
get_spot_or_raise(L, spot_id) ==
    IF spot_id < 0 THEN "InvalidArgument"
    ELSE IF spot_id \notin DOMAIN L.parking_spots THEN "InvalidSpot"
    ELSE "ok"

\* _find_available_spot testing the spot registry instead of the free set
find_available_spot_tests_registry(L, choice) ==
    IF DOMAIN L.parking_spots = {}
    THEN [lot |-> L, err |-> "NoSpotsAvailable", spot_id |-> NoSpotId,
          events |-> << >>]
    ELSE LET L1 == [L EXCEPT !.available_spots = @ \ {choice}]
         IN  [lot |-> L1, err |-> get_spot_or_raise(L1, choice),
              spot_id |-> choice, events |-> << >>]

\* ParkingLot._find_available_spot; choice is the element set.pop() returns
find_available_spot(L, choice) ==
    IF L.available_spots = {}
    THEN [lot |-> L, err |-> "NoSpotsAvailable", spot_id |-> NoSpotId,
          events |-> << >>]
    ELSE LET L1 == [L EXCEPT !.available_spots = @ \ {choice}]
         IN  [lot |-> L1, err |-> get_spot_or_raise(L1, choice),
              spot_id |-> choice, events |-> << >>]

\* add_spot with the registered-id test (lines 126-127) left out
add_spot_no_duplicate_test(L, spot_id, spot_type) ==
    IF spot_id < 0
    THEN [lot |-> L, err |-> "InvalidArgument", ret |-> "None",
          events |-> << >>]
    ELSE IF spot_type \notin {"standard", "electric"}
    THEN [lot |-> L, err |-> "InvalidArgument", ret |-> "None",
          events |-> << >>]
    ELSE LET spot == IF spot_type = "standard"
                     THEN StandardParkingSpot(spot_id)
                     ELSE ElectricVehicleParkingSpot(spot_id)
         IN  [lot |-> [L EXCEPT
                        !.parking_spots = DictSet(@, spot_id, spot),
                        !.available_spots = @ \cup {spot_id}],
              err |-> "ok", ret |-> "spot", events |-> << >>]

\* ParkingLot.add_spot; ret is "spot" when a spot is returned, else "None"
add_spot(L, spot_id, spot_type) ==
    IF spot_id < 0 THEN [lot |-> L, err |-> "InvalidArgument", ret |-> "None",
          events |-> << >>]
    ELSE IF spot_id \in DOMAIN L.parking_spots
         THEN [lot |-> L, err |-> "ok", ret |-> "None",
          events |-> << >>]
    ELSE IF spot_type \notin {"standard", "electric"}
         THEN [lot |-> L, err |-> "InvalidArgument", ret |-> "None",
          events |-> << >>]
    ELSE LET spot == IF spot_type = "standard"
                     THEN StandardParkingSpot(spot_id)
                     ELSE ElectricVehicleParkingSpot(spot_id)
         IN  [lot |-> [L EXCEPT
                        !.parking_spots = DictSet(@, spot_id, spot),
                        !.available_spots = @ \cup {spot_id}],
              err |-> "ok", ret |-> "spot", events |-> << >>]

\* lines 172-175 with the available_spots.discard of line 174 left out
park_in_spot_no_discard(L, vehicle, spot_id) ==
    LET r == spot_park_vehicle(L.parking_spots[spot_id], vehicle)
    IN  IF r.err # "ok"
        THEN [lot |-> L, err |-> r.err, spot_id |-> spot_id,
              events |-> << >>]
        ELSE [lot |-> [L EXCEPT
                        !.parking_spots = DictSet(@, spot_id, r.spot),
                        !.vehicle_to_spot =
                            DictSet(@, vehicle.vehicle_id, spot_id)],
              err |-> "ok", spot_id |-> spot_id,
              events |-> trigger_event("vehicle_parked", spot_id,
                                       vehicle.vehicle_id)]

\* ParkingLot.park_vehicle, lines 172-174: the spot's own park_vehicle, then
\* the reverse index, then the free set
park_in_spot(L, vehicle, spot_id) ==
    LET r == spot_park_vehicle(L.parking_spots[spot_id], vehicle)
    IN  IF r.err # "ok"
        THEN [lot |-> L, err |-> r.err, spot_id |-> spot_id,
              events |-> << >>]
        ELSE [lot |-> [L EXCEPT
                        !.parking_spots = DictSet(@, spot_id, r.spot),
                        !.vehicle_to_spot =
                            DictSet(@, vehicle.vehicle_id, spot_id),
                        !.available_spots = @ \ {spot_id}],
              err |-> "ok", spot_id |-> spot_id,
              events |-> trigger_event("vehicle_parked", spot_id,
                                       vehicle.vehicle_id)]

\* park_vehicle with the vehicle_to_spot test (lines 164-165) left out
park_vehicle_no_index_test(L, vehicle, spot_id, choice) ==
    IF vehicle = NotAVehicle
    THEN [lot |-> L, err |-> "TypeError", spot_id |-> NoSpotId,
          events |-> << >>]
    ELSE IF spot_id = NoSpotId
    THEN LET f == find_available_spot(L, choice)
         IN  IF f.err # "ok" THEN f
             ELSE park_in_spot(f.lot, vehicle, f.spot_id)
    ELSE LET e == get_spot_or_raise(L, spot_id)
         IN  IF e # "ok" THEN [lot |-> L, err |-> e, spot_id |-> NoSpotId,
          events |-> << >>]
             ELSE IF ~is_available(L.parking_spots[spot_id])
             THEN [lot |-> L, err |-> "AlreadyOccupied", spot_id |-> spot_id,
                   events |-> << >>]
             ELSE park_in_spot(L, vehicle, spot_id)

\* park_vehicle with the lot's own is_available test (lines 170-171) left
\* out, so that only the spot's park_vehicle validates
park_vehicle_no_available_test(L, vehicle, spot_id, choice) ==
    IF vehicle = NotAVehicle
    THEN [lot |-> L, err |-> "TypeError", spot_id |-> NoSpotId,
          events |-> << >>]
    ELSE IF vehicle.vehicle_id \in DOMAIN L.vehicle_to_spot
    THEN [lot |-> L, err |-> "AlreadyParked", spot_id |-> NoSpotId,
          events |-> << >>]
    ELSE IF spot_id = NoSpotId
    THEN LET f == find_available_spot(L, choice)
         IN  IF f.err # "ok" THEN f
             ELSE park_in_spot(f.lot, vehicle, f.spot_id)
    ELSE LET e == get_spot_or_raise(L, spot_id)
         IN  IF e # "ok" THEN [lot |-> L, err |-> e, spot_id |-> NoSpotId,
          events |-> << >>]
             ELSE park_in_spot(L, vehicle, spot_id)

\* ParkingLot.park_vehicle; spot_id = NoSpotId is the omitted argument
park_vehicle(L, vehicle, spot_id, choice) ==
    IF vehicle = NotAVehicle
    THEN [lot |-> L, err |-> "TypeError", spot_id |-> NoSpotId,
          events |-> << >>]
    ELSE IF vehicle.vehicle_id \in DOMAIN L.vehicle_to_spot
    THEN [lot |-> L, err |-> "AlreadyParked", spot_id |-> NoSpotId,
          events |-> << >>]
    ELSE IF spot_id = NoSpotId
    THEN LET f == find_available_spot(L, choice)
         IN  IF f.err # "ok" THEN f
             ELSE park_in_spot(f.lot, vehicle, f.spot_id)
    ELSE LET e == get_spot_or_raise(L, spot_id)
         IN  IF e # "ok" THEN [lot |-> L, err |-> e, spot_id |-> NoSpotId,
          events |-> << >>]
             ELSE IF ~is_available(L.parking_spots[spot_id])
             THEN [lot |-> L, err |-> "AlreadyOccupied", spot_id |-> spot_id,
                   events |-> << >>]
             ELSE park_in_spot(L, vehicle, spot_id)

\* ParkingLot._free_spot
free_spot(L, spot_id) ==
    LET r == spot_unpark_vehicle(L.parking_spots[spot_id])
    IN  IF is_available(L.parking_spots[spot_id])
        THEN [lot |-> L, err |-> "AlreadyEmpty", spot_id |-> spot_id,
              events |-> << >>]
        ELSE IF r.err # "ok"
        THEN [lot |-> L, err |-> r.err, spot_id |-> spot_id,
              events |-> << >>]
        ELSE [lot |-> [L EXCEPT
                        !.parking_spots = DictSet(@, spot_id, r.spot),
                        !.available_spots = @ \cup {spot_id}],
              err |-> "ok", spot_id |-> spot_id,
              events |-> trigger_event("spot_freed", spot_id, "")]

\* ParkingLot.unpark_vehicle: the index entry is popped before the spot is
\* looked up and freed
unpark_vehicle(L, vehicle_id) ==
    IF vehicle_id = ""
    THEN [lot |-> L, err |-> "InvalidArgument", spot_id |-> NoSpotId,
          events |-> << >>]
    ELSE IF vehicle_id \notin DOMAIN L.vehicle_to_spot
    THEN [lot |-> L, err |-> "NotFound", spot_id |-> NoSpotId,
          events |-> << >>]
    ELSE LET spot_id == L.vehicle_to_spot[vehicle_id]
             L1 == [L EXCEPT !.vehicle_to_spot = DictPop(@, vehicle_id)]
             e == get_spot_or_raise(L1, spot_id)
             f == free_spot(L1, spot_id)
         IN  IF e # "ok"
             THEN [lot |-> L1, err |-> e, spot_id |-> spot_id,
                   events |-> << >>]
             ELSE IF f.err # "ok" THEN f
             ELSE [f EXCEPT !.events =
                      @ \o trigger_event("vehicle_unparked", spot_id,
                                         vehicle_id)]

\* release_spot that also drops the occupant's vehicle_to_spot entry
release_spot_pops_index(L, spot_id) ==
    LET e == get_spot_or_raise(L, spot_id)
    IN  IF e # "ok"
        THEN [lot |-> L, err |-> e, spot_id |-> NoSpotId, events |-> << >>]
        ELSE LET f == free_spot(L, spot_id)
             IN  IF f.err # "ok" THEN f
                 ELSE [f EXCEPT !.lot.vehicle_to_spot =
                         DictPop(@, L.parking_spots[spot_id].vehicle.vehicle_id)]

\* ParkingLot.release_spot
release_spot(L, spot_id) ==
    LET e == get_spot_or_raise(L, spot_id)
    IN  IF e # "ok" THEN [lot |-> L, err |-> e, spot_id |-> NoSpotId,
          events |-> << >>]
        ELSE free_spot(L, spot_id)

\* no snapshot taken yet.  A snapshot is the mapping take_snapshot returned
\* (spots) together with the ids of the spots in it that are the lot's own
\* spot objects, occupant included (shared); the mapping itself is always a
\* new one.
NoSnapshot == [taken |-> FALSE, spots |-> EmptyMap, shared |-> {}]

\* a take_snapshot that returns copy.copy(self.parking_spots): a new mapping
\* of the lot's own spot objects
take_snapshot_shallow(L) ==
    [taken |-> TRUE, spots |-> L.parking_spots,
     shared |-> DOMAIN L.parking_spots]

\* ParkingLot.take_snapshot: copy.deepcopy makes new spot objects holding new
\* Vehicle objects, equal to the lot's
take_snapshot(L) ==
    [taken |-> TRUE, spots |-> L.parking_spots, shared |-> {}]

\* the snapshot S as its holder sees it once the lot has become L: a shared
\* spot object shows what the lot has made of it
seen_through(S, L) ==
    [S EXCEPT !.spots =
        [k \in DOMAIN S.spots |->
            IF k \in S.shared THEN L.parking_spots[k] ELSE S.spots[k]]]

\* the holder of snapshot S changes it: "del" is del S[k], "unpark" is
\* S[k].unpark_vehicle(), "park" is S[k].park_vehicle(vehicle) and "retype"
\* is S[k].vehicle.vehicle_type = vehicle.vehicle_type; what is done to a
\* shared spot object is done to the lot L
mutate_snapshot(S, L, how, k, vehicle) ==
    LET old == S.spots[k]
        new == CASE how = "unpark" -> spot_unpark_vehicle(old).spot
                 [] how = "park" -> spot_park_vehicle(old, vehicle).spot
                 [] how = "retype" ->
                        IF is_available(old) THEN old
                        ELSE [old EXCEPT !.vehicle.vehicle_type =
                                            vehicle.vehicle_type]
                 [] OTHER -> old
    IN  IF how = "del"
        THEN [snapshot |-> [S EXCEPT !.spots = DictPop(@, k),
                                     !.shared = @ \ {k}],
              lot |-> L]
        ELSE [snapshot |-> [S EXCEPT !.spots = DictSet(@, k, new)],
              lot |-> IF k \in S.shared
                      THEN [L EXCEPT !.parking_spots = DictSet(@, k, new)]
                      ELSE L]

\* ------------------------------------------------------------------ state
\* A single caller makes one call after another; a call runs from its first
\* statement to its return or raise in one step (the lot's lock makes it so,
\* see SpecThreads below).  call and pre record the call just made until
\* the caller has taken its outcome.
VARIABLES
    parking_spots,      \* ParkingLot.parking_spots: spot id -> spot
    vehicle_to_spot,    \* ParkingLot.vehicle_to_spot: vehicle id -> spot id
    available_spots,    \* ParkingLot.available_spots: set of spot ids
    call,               \* the last public call: operation, arguments, outcome
    pre,                \* the lot as it was when the last call started
    snapshot,           \* the caller's last take_snapshot() result
    th,                 \* per thread: position in its call, arguments, locals
    lock_owner,         \* ParkingLot._lock: the owning thread, 0 when free
    lock_count,         \* ParkingLot._lock: the owner's recursion level
    callbacks,          \* ParkingLot._callbacks: event -> list of handles
    firing,             \* the running _trigger_event: its loop and history
    registry_call       \* the caller's last register/unregister call

vars == <<parking_spots, vehicle_to_spot, available_spots, call, pre,
          snapshot, th, lock_owner, lock_count, callbacks, firing,
          registry_call>>
lotvars == <<parking_spots, vehicle_to_spot, available_spots>>
cbvars == <<callbacks, firing, registry_call>>
seqvars == <<call, pre, snapshot, cbvars>>
thvars == <<th, lock_owner, lock_count>>

\* the lot at rest
Lot == [parking_spots |-> parking_spots,
        vehicle_to_spot |-> vehicle_to_spot,
        available_spots |-> available_spots]

SetLot(L) ==
    /\ parking_spots' = L.parking_spots
    /\ vehicle_to_spot' = L.vehicle_to_spot
    /\ available_spots' = L.available_spots

Call(op, vehicle, vehicle_id, spot_id, spot_type, r) ==
    [op |-> op, vehicle |-> vehicle, vehicle_id |-> vehicle_id,
     spot_id |-> spot_id, spot_type |-> spot_type,
     err |-> r.err, chosen |-> r.spot_id, events |-> r.events]

Threads == 1..NumThreads

\* a thread outside any call
Idle == [pc |-> "idle", op |-> "", vehicle |-> None, vehicle_id |-> "",
         spot_id |-> NoSpotId, spot_type |-> "", spot |-> NoSpotId,
         err |-> "ok", pre |-> EmptyLot, events |-> << >>, i |-> 0]

NoCall == [op |-> "init", vehicle |-> None, vehicle_id |-> "",
           spot_id |-> NoSpotId, spot_type |-> "", err |-> "ok",
           chosen |-> NoSpotId, events |-> << >>]

\* no _trigger_event has run since the registry was last changed from outside
NoFiring == [pc |-> "idle", event |-> "", i |-> 0,
             start |-> << >>, invoked |-> << >>]

\* no register_callback or unregister_callback call to look back on
NoRegistryCall == [op |-> "", event |-> "", callback |-> 0,
                   before |-> EmptyMap, err |-> "ok"]

Init ==
    /\ parking_spots = EmptyLot.parking_spots
    /\ vehicle_to_spot = EmptyLot.vehicle_to_spot
    /\ available_spots = EmptyLot.available_spots
    /\ call = NoCall
    /\ pre = EmptyLot
    /\ snapshot = NoSnapshot
    /\ th = [t \in Threads |-> Idle]
    /\ lock_owner = 0
    /\ lock_count = 0
    /\ callbacks = EmptyMap
    /\ firing = NoFiring
    /\ registry_call = NoRegistryCall

\* lot.add_spot(spot_id, spot_type)
AddSpot ==
    /\ call = NoCall
    /\ \E spot_id \in SpotIdArgs, spot_type \in SpotTypeArgs :
        LET r == add_spot(Lot, spot_id, spot_type)
        IN  /\ SetLot(r.lot)
            /\ call' = Call("add_spot", None, "", spot_id, spot_type,
                            [err |-> r.err,
                             spot_id |-> IF r.ret = "spot" THEN spot_id
                                         ELSE NoSpotId,
                             events |-> r.events])
            /\ pre' = Lot
            /\ UNCHANGED <<thvars, snapshot, cbvars>>

\* the elements set.pop() may return in _find_available_spot
PopChoices(L, spot_id) ==
    IF spot_id = NoSpotId /\ L.available_spots # {}
    THEN L.available_spots ELSE {NoSpotId}

\* lot.park_vehicle(vehicle) and lot.park_vehicle(vehicle, spot_id)
ParkVehicle ==
    /\ call = NoCall
    /\ \E vehicle \in Vehicles \cup {NotAVehicle},
       spot_id \in SpotIdArgs \cup {NoSpotId} :
        \E choice \in PopChoices(Lot, spot_id) :
            LET r == park_vehicle(Lot, vehicle, spot_id, choice)
            IN  /\ SetLot(r.lot)
                /\ call' = Call("park_vehicle", vehicle, "", spot_id, "", r)
                /\ pre' = Lot
                /\ UNCHANGED <<thvars, snapshot, cbvars>>

\* lot.unpark_vehicle(vehicle_id)
UnparkVehicle ==
    /\ call = NoCall
    /\ \E vehicle_id \in VehicleIdArgs :
        LET r == unpark_vehicle(Lot, vehicle_id)
        IN  /\ SetLot(r.lot)
            /\ call' = Call("unpark_vehicle", None, vehicle_id, NoSpotId, "", r)
            /\ pre' = Lot
            /\ UNCHANGED <<thvars, snapshot, cbvars>>

\* lot.release_spot(spot_id)
ReleaseSpot ==
    /\ call = NoCall
    /\ \E spot_id \in SpotIdArgs :
        LET r == release_spot(Lot, spot_id)
        IN  /\ SetLot(r.lot)
            /\ call' = Call("release_spot", None, "", spot_id, "", r)
            /\ pre' = Lot
            /\ UNCHANGED <<thvars, snapshot, cbvars>>

\* the caller has received the outcome of its call (the value returned or the
\* exception raised) and is free to make the next call
Return ==
    /\ call # NoCall
    /\ call' = NoCall
    /\ pre' = EmptyLot
    /\ UNCHANGED <<lotvars, thvars, snapshot, cbvars>>

Next == AddSpot \/ ParkVehicle \/ UnparkVehicle \/ ReleaseSpot \/ Return

Spec == Init /\ [][Next]_vars

\* ------------------------------------------------------------ threads
\* Several threads call into one lot.  Each statement of a method is one
\* step, so that steps of different threads interleave wherever the lock
\* lets them.  The arguments of a call are local to the calling thread; they
\* are drawn when the thread enters the method body.

\* the arguments the threads pass
SpotIdArgsThreads == (-1)..MaxSpotIdThreads
VehicleIdsThreads == {VehicleNames[i] : i \in 1..NumVehiclesThreads}
\* one Vehicle per id, by turns a Sedan and an electric one
VehiclesThreads ==
    {Vehicle(VehicleNames[i], IF i % 2 = 1 THEN "Sedan" ELSE "electric") :
        i \in 1..NumVehiclesThreads}

\* an acquire that never blocks
RLock_can_acquire_never_blocks(t) == TRUE

\* threading.Lock in place of RLock: the owner blocks on its own lock
Lock_can_acquire(t) == lock_owner = 0

\* threading.RLock.acquire returns at once for the owner and when the lock is
\* free, and blocks otherwise
RLock_can_acquire(t) == lock_owner \in {0, t}

\* entering "with self._lock"
RLock_acquire(t) ==
    /\ RLock_can_acquire(t)
    /\ lock_owner' = t
    /\ lock_count' = lock_count + 1

\* leaving "with self._lock", normally or by an exception
RLock_release(t) ==
    /\ lock_count' = lock_count - 1
    /\ lock_owner' = IF lock_count = 1 THEN 0 ELSE lock_owner

\* a helper method's own "with self._lock" block, entered and left within
\* one step by a thread that can take the lock
Nested(t) == RLock_can_acquire(t)

At(t, label) == th[t].pc = label
Goto(t, label) == th' = [th EXCEPT ![t].pc = label]
\* an exception propagates to the outermost "with", which releases the lock
Raise(t, e) == th' = [th EXCEPT ![t].pc = "unlock", ![t].err = e]

\* a thread calls a public method and reaches its "with self._lock"
Invoke(t) ==
    /\ At(t, "idle")
    /\ Goto(t, "lock")
    /\ UNCHANGED <<lotvars, seqvars, lock_owner, lock_count>>

Enter(t, op, first, vehicle, vehicle_id, spot_id, spot_type) ==
    /\ At(t, "lock")
    /\ RLock_acquire(t)
    /\ th' = [th EXCEPT ![t] =
                [pc |-> first, op |-> op, vehicle |-> vehicle,
                 vehicle_id |-> vehicle_id, spot_id |-> spot_id,
                 spot_type |-> spot_type, spot |-> NoSpotId,
                 err |-> "ok", pre |-> Lot, events |-> << >>, i |-> 0]]
    /\ UNCHANGED <<lotvars, seqvars>>

\* add_spot, line 123
AddSpotEnter(t) ==
    \E spot_id \in SpotIdArgsThreads, spot_type \in SpotTypeArgs :
        Enter(t, "add_spot", "add_check", None, "", spot_id, spot_type)

\* add_spot, lines 124-133
AddSpotCheck(t) ==
    /\ At(t, "add_check")
    /\ IF th[t].spot_id < 0 THEN Raise(t, "InvalidArgument")
       ELSE IF th[t].spot_id \in DOMAIN parking_spots THEN Goto(t, "unlock")
       ELSE IF th[t].spot_type \notin {"standard", "electric"}
            THEN Raise(t, "InvalidArgument")
       ELSE Goto(t, "add_insert")
    /\ UNCHANGED <<lotvars, seqvars, lock_owner, lock_count>>

\* add_spot, line 134
AddSpotInsert(t) ==
    /\ At(t, "add_insert")
    /\ parking_spots' = DictSet(parking_spots, th[t].spot_id,
                            IF th[t].spot_type = "standard"
                            THEN StandardParkingSpot(th[t].spot_id)
                            ELSE ElectricVehicleParkingSpot(th[t].spot_id))
    /\ Goto(t, "add_available")
    /\ UNCHANGED <<vehicle_to_spot, available_spots, seqvars,
                   lock_owner, lock_count>>

\* add_spot, line 135
AddSpotAvailable(t) ==
    /\ At(t, "add_available")
    /\ available_spots' = available_spots \cup {th[t].spot_id}
    /\ Goto(t, "unlock")
    /\ UNCHANGED <<parking_spots, vehicle_to_spot, seqvars,
                   lock_owner, lock_count>>

\* park_vehicle, line 161
ParkEnter(t) ==
    \E vehicle \in VehiclesThreads \cup {NotAVehicle},
       spot_id \in SpotIdArgsThreads \cup {NoSpotId} :
        Enter(t, "park_vehicle", "park_check", vehicle, "", spot_id, "")

\* park_vehicle, lines 162-166
ParkCheck(t) ==
    /\ At(t, "park_check")
    /\ IF th[t].vehicle = NotAVehicle THEN Raise(t, "TypeError")
       ELSE IF th[t].vehicle.vehicle_id \in DOMAIN vehicle_to_spot
            THEN Raise(t, "AlreadyParked")
       ELSE IF th[t].spot_id = NoSpotId THEN Goto(t, "find")
       ELSE Goto(t, "park_get")
    /\ UNCHANGED <<lotvars, seqvars, lock_owner, lock_count>>

\* park_vehicle, line 167: _find_available_spot, lines 82-87
ParkFind(t) ==
    /\ At(t, "find")
    /\ Nested(t)
    /\ IF available_spots = {}
       THEN /\ Raise(t, "NoSpotsAvailable")
            /\ UNCHANGED available_spots
       ELSE \E choice \in available_spots :
                /\ available_spots' = available_spots \ {choice}
                /\ LET e == get_spot_or_raise(Lot, choice)
                   IN  th' = [th EXCEPT
                                ![t].spot = choice,
                                ![t].err = e,
                                ![t].pc = IF e = "ok" THEN "spot_park"
                                          ELSE "unlock"]
    /\ UNCHANGED <<parking_spots, vehicle_to_spot, seqvars,
                   lock_owner, lock_count>>

\* park_vehicle, lines 169-171
ParkGet(t) ==
    /\ At(t, "park_get")
    /\ Nested(t)
    /\ LET e == get_spot_or_raise(Lot, th[t].spot_id)
       IN  IF e # "ok" THEN Raise(t, e)
           ELSE IF ~is_available(parking_spots[th[t].spot_id])
           THEN th' = [th EXCEPT ![t].pc = "unlock",
                                 ![t].err = "AlreadyOccupied",
                                 ![t].spot = th[t].spot_id]
           ELSE th' = [th EXCEPT ![t].pc = "spot_park",
                                 ![t].spot = th[t].spot_id]
    /\ UNCHANGED <<lotvars, seqvars, lock_owner, lock_count>>

\* park_vehicle, line 172
ParkSpot(t) ==
    /\ At(t, "spot_park")
    /\ LET r == spot_park_vehicle(parking_spots[th[t].spot], th[t].vehicle)
       IN  /\ parking_spots' = DictSet(parking_spots, th[t].spot, r.spot)
           /\ IF r.err = "ok" THEN Goto(t, "park_index")
              ELSE Raise(t, r.err)
    /\ UNCHANGED <<vehicle_to_spot, available_spots, seqvars,
                   lock_owner, lock_count>>

\* line 173 followed at once by the notification of line 175
ParkIndex_then_trigger(t) ==
    /\ At(t, "park_index")
    /\ vehicle_to_spot' =
           DictSet(vehicle_to_spot, th[t].vehicle.vehicle_id, th[t].spot)
    /\ Goto(t, "park_trigger")
    /\ UNCHANGED <<parking_spots, available_spots, seqvars,
                   lock_owner, lock_count>>

\* park_vehicle, line 173
ParkIndex(t) ==
    /\ At(t, "park_index")
    /\ vehicle_to_spot' =
           DictSet(vehicle_to_spot, th[t].vehicle.vehicle_id, th[t].spot)
    /\ Goto(t, "park_discard")
    /\ UNCHANGED <<parking_spots, available_spots, seqvars,
                   lock_owner, lock_count>>

\* park_vehicle, line 174
ParkDiscard(t) ==
    /\ At(t, "park_discard")
    /\ available_spots' = available_spots \ {th[t].spot}
    /\ Goto(t, "park_trigger")
    /\ UNCHANGED <<parking_spots, vehicle_to_spot, seqvars,
                   lock_owner, lock_count>>

\* a _trigger_event that runs the callbacks after the lock has been given up
Trigger_outside_lock(t, event, vehicle_id) ==
    /\ lock_owner' = 0
    /\ lock_count' = 0
    /\ th' = [th EXCEPT
                ![t].pc = "callbacks",
                ![t].i = 0,
                ![t].events =
                    @ \o trigger_event(event, th[t].spot, vehicle_id)]
    /\ UNCHANGED <<lotvars, seqvars>>

\* _trigger_event, lines 68-69: the event is fired; the thread takes the
\* lock once more and starts on the callbacks registered for the event
Trigger(t, event, vehicle_id) ==
    /\ RLock_acquire(t)
    /\ th' = [th EXCEPT
                ![t].pc = "callbacks",
                ![t].i = 0,
                ![t].events =
                    @ \o trigger_event(event, th[t].spot, vehicle_id)]
    /\ UNCHANGED <<lotvars, seqvars>>

\* park_vehicle, line 175: _trigger_event("vehicle_parked")
ParkTrigger(t) ==
    /\ At(t, "park_trigger")
    /\ Trigger(t, "vehicle_parked", th[t].vehicle.vehicle_id)

\* unpark_vehicle, line 204
UnparkEnter(t) ==
    \E vehicle_id \in VehicleIdsThreads \cup {""} :
        Enter(t, "unpark_vehicle", "unpark_check", None, vehicle_id,
              NoSpotId, "")

\* unpark_vehicle, lines 205-208
UnparkCheck(t) ==
    /\ At(t, "unpark_check")
    /\ IF th[t].vehicle_id = "" THEN Raise(t, "InvalidArgument")
       ELSE IF th[t].vehicle_id \notin DOMAIN vehicle_to_spot
            THEN Raise(t, "NotFound")
       ELSE Goto(t, "unpark_pop")
    /\ UNCHANGED <<lotvars, seqvars, lock_owner, lock_count>>

\* unpark_vehicle, line 209; a key another thread has removed in the
\* meantime makes dict.pop raise KeyError
UnparkPop(t) ==
    /\ At(t, "unpark_pop")
    /\ IF th[t].vehicle_id \in DOMAIN vehicle_to_spot
       THEN /\ vehicle_to_spot' = DictPop(vehicle_to_spot, th[t].vehicle_id)
            /\ th' = [th EXCEPT ![t].pc = "unpark_get",
                                ![t].spot = vehicle_to_spot[th[t].vehicle_id]]
       ELSE /\ Raise(t, "KeyError")
            /\ UNCHANGED vehicle_to_spot
    /\ UNCHANGED <<parking_spots, available_spots, seqvars,
                   lock_owner, lock_count>>

\* unpark_vehicle, line 210
UnparkGet(t) ==
    /\ At(t, "unpark_get")
    /\ Nested(t)
    /\ LET e == get_spot_or_raise(Lot, th[t].spot)
       IN  IF e # "ok" THEN Raise(t, e) ELSE Goto(t, "free_check")
    /\ UNCHANGED <<lotvars, seqvars, lock_owner, lock_count>>

\* release_spot, line 225
ReleaseEnter(t) ==
    \E spot_id \in SpotIdArgsThreads :
        Enter(t, "release_spot", "release_get", None, "", spot_id, "")

\* release_spot, line 226
ReleaseGet(t) ==
    /\ At(t, "release_get")
    /\ Nested(t)
    /\ LET e == get_spot_or_raise(Lot, th[t].spot_id)
       IN  IF e # "ok" THEN Raise(t, e)
           ELSE th' = [th EXCEPT ![t].pc = "free_check",
                                 ![t].spot = th[t].spot_id]
    /\ UNCHANGED <<lotvars, seqvars, lock_owner, lock_count>>

\* _free_spot, lines 187-189
FreeCheck(t) ==
    /\ At(t, "free_check")
    /\ Nested(t)
    /\ IF is_available(parking_spots[th[t].spot])
       THEN Raise(t, "AlreadyEmpty")
       ELSE Goto(t, "free_unpark")
    /\ UNCHANGED <<lotvars, seqvars, lock_owner, lock_count>>

\* _free_spot, line 190
FreeUnpark(t) ==
    /\ At(t, "free_unpark")
    /\ LET r == spot_unpark_vehicle(parking_spots[th[t].spot])
       IN  /\ parking_spots' = DictSet(parking_spots, th[t].spot, r.spot)
           /\ IF r.err = "ok" THEN Goto(t, "free_add") ELSE Raise(t, r.err)
    /\ UNCHANGED <<vehicle_to_spot, available_spots, seqvars,
                   lock_owner, lock_count>>

\* _free_spot, line 191
FreeAdd(t) ==
    /\ At(t, "free_add")
    /\ available_spots' = available_spots \cup {th[t].spot}
    /\ Goto(t, "free_trigger")
    /\ UNCHANGED <<parking_spots, vehicle_to_spot, seqvars,
                   lock_owner, lock_count>>

\* _free_spot, line 192: _trigger_event("spot_freed")
FreeTrigger(t) ==
    /\ At(t, "free_trigger")
    /\ Trigger(t, "spot_freed", "")

\* unpark_vehicle, line 212: _trigger_event("vehicle_unparked")
UnparkTrigger(t) ==
    /\ At(t, "unpark_trigger")
    /\ Trigger(t, "vehicle_unparked", th[t].vehicle_id)

\* _trigger_event, lines 69-70: the loop finds one more callback and calls
\* it.  The threads do not follow the registry (SpecCallbacks does): the
\* list self._callbacks[event] is whatever the callers have registered, so
\* a firing finds any number of callbacks up to MaxCallbacks.
\* A callback returns without raising; it either leaves the lot alone or
\* calls lot.take_snapshot().
CallbackInvoke(t) ==
    /\ At(t, "callbacks")
    /\ th[t].i < MaxCallbacks
    /\ th' = [th EXCEPT ![t].pc = "callback", ![t].i = @ + 1]
    /\ UNCHANGED <<lotvars, seqvars, lock_owner, lock_count>>

\* the callback calls lot.take_snapshot() from the thread that runs it: line
\* 145 takes the lock again
CallbackReenter(t) ==
    /\ At(t, "callback")
    /\ RLock_acquire(t)
    /\ Goto(t, "callback_snapshot")
    /\ UNCHANGED <<lotvars, seqvars>>

\* line 146 inside the callback: the copy is made and the lock released;
\* the callback returns to the loop of _trigger_event
CallbackSnapshot(t) ==
    /\ At(t, "callback_snapshot")
    /\ RLock_release(t)
    /\ Goto(t, "callbacks")
    /\ UNCHANGED <<lotvars, seqvars>>

\* a callback that does not call the lot returns to the loop of
\* _trigger_event
CallbackReturn(t) ==
    /\ At(t, "callback")
    /\ Goto(t, "callbacks")
    /\ UNCHANGED <<lotvars, seqvars, lock_owner, lock_count>>

\* where a method goes on after _trigger_event has returned
AfterTrigger(t) ==
    IF /\ th[t].op = "unpark_vehicle"
       /\ th[t].events[Len(th[t].events)].event = "spot_freed"
    THEN "unpark_trigger" ELSE "unlock"

\* _trigger_event, line 69: the loop has run out of callbacks; the "with" of
\* line 68 ends
TriggerLeave(t) ==
    /\ At(t, "callbacks")
    /\ RLock_release(t)
    /\ Goto(t, AfterTrigger(t))
    /\ UNCHANGED <<lotvars, seqvars>>

\* take_snapshot, line 145
SnapshotEnter(t) ==
    Enter(t, "take_snapshot", "snapshot", None, "", NoSpotId, "")

\* take_snapshot, line 146; the thread drops the copy
SnapshotCopy(t) ==
    /\ At(t, "snapshot")
    /\ Goto(t, "unlock")
    /\ UNCHANGED <<lotvars, seqvars, lock_owner, lock_count>>

\* the end of the method's "with self._lock": the call returns or raises
Leave(t) ==
    /\ At(t, "unlock")
    /\ RLock_release(t)
    /\ th' = [th EXCEPT ![t] = Idle]
    /\ UNCHANGED <<lotvars, seqvars>>

ThreadStep(t) ==
    \/ Invoke(t) \/ Leave(t)
    \/ AddSpotEnter(t) \/ AddSpotCheck(t) \/ AddSpotInsert(t)
    \/ AddSpotAvailable(t)
    \/ ParkEnter(t) \/ ParkCheck(t) \/ ParkFind(t) \/ ParkGet(t)
    \/ ParkSpot(t) \/ ParkIndex(t) \/ ParkDiscard(t) \/ ParkTrigger(t)
    \/ UnparkEnter(t) \/ UnparkCheck(t) \/ UnparkPop(t) \/ UnparkGet(t)
    \/ ReleaseEnter(t) \/ ReleaseGet(t)
    \/ FreeCheck(t) \/ FreeUnpark(t) \/ FreeAdd(t) \/ FreeTrigger(t)
    \/ UnparkTrigger(t)
    \/ CallbackInvoke(t) \/ CallbackReenter(t) \/ CallbackSnapshot(t)
    \/ CallbackReturn(t) \/ TriggerLeave(t)
    \/ SnapshotEnter(t) \/ SnapshotCopy(t)

NextThreads == \E t \in Threads : ThreadStep(t)

SpecThreads == Init /\ [][NextThreads]_vars

\* a thread blocked in "with self._lock" gets the lock
Acquire(t) ==
    \/ AddSpotEnter(t) \/ ParkEnter(t) \/ UnparkEnter(t)
    \/ ReleaseEnter(t) \/ SnapshotEnter(t)
\* a step of a thread that is inside a method
Running(t) == th[t].pc \notin {"idle", "lock"} /\ ThreadStep(t)

\* The scheduler keeps running a thread that can run, and a thread blocked on
\* the lock is not passed over for ever when the lock is released again and
\* again.  A thread is free never to call the lot again.
SpecThreadsFair ==
    /\ SpecThreads
    /\ \A t \in Threads : WF_vars(Running(t)) /\ SF_vars(Acquire(t))

\* ----------------------------------------------------------- snapshots
\* A single caller takes snapshots of the lot, goes on calling the lot and
\* changes the snapshot it holds.  call records the kind of the last step.
Did(op) == [NoCall EXCEPT !.op = op]

\* snapshot = lot.take_snapshot()
TakeSnapshot ==
    /\ snapshot' = take_snapshot(Lot)
    /\ call' = Did("take_snapshot")
    /\ UNCHANGED <<lotvars, pre, thvars, cbvars>>

\* the outcome of one call of the lot while a snapshot may be held
SnapshotLotCall(r, op) ==
    /\ SetLot(r.lot)
    /\ snapshot' = seen_through(snapshot, r.lot)
    /\ call' = Did(op)
    /\ UNCHANGED <<pre, thvars, cbvars>>

\* any of the lot's four mutating methods
LotCall ==
    \/ \E spot_id \in SpotIdArgsThreads, spot_type \in SpotTypeArgs :
         SnapshotLotCall(add_spot(Lot, spot_id, spot_type), "add_spot")
    \/ \E vehicle \in VehiclesThreads,
          spot_id \in SpotIdArgsThreads \cup {NoSpotId} :
         \E choice \in PopChoices(Lot, spot_id) :
            SnapshotLotCall(park_vehicle(Lot, vehicle, spot_id, choice),
                            "park_vehicle")
    \/ \E vehicle_id \in VehicleIdsThreads :
         SnapshotLotCall(unpark_vehicle(Lot, vehicle_id), "unpark_vehicle")
    \/ \E spot_id \in SpotIdArgsThreads :
         SnapshotLotCall(release_spot(Lot, spot_id), "release_spot")

\* the caller changes the mapping it got, a spot in it or a spot's occupant
SnapshotMutate ==
    /\ snapshot.taken
    /\ \E how \in {"del", "unpark", "park", "retype"},
          k \in DOMAIN snapshot.spots, vehicle \in VehiclesThreads :
         LET m == mutate_snapshot(snapshot, Lot, how, k, vehicle)
         IN  /\ snapshot' = m.snapshot
             /\ SetLot(m.lot)
    /\ call' = Did("snapshot_mutation")
    /\ UNCHANGED <<pre, thvars, cbvars>>

NextSnapshot == TakeSnapshot \/ LotCall \/ SnapshotMutate

SpecSnapshot == Init /\ [][NextSnapshot]_vars

\* ------------------------------------------------- the callback registry
\* SpecCallbacks follows one caller through the registry of callbacks and
\* through the loop of _trigger_event, one invocation of a callback a step.
\* park_vehicle, _free_spot and unpark_vehicle call _trigger_event after
\* their writes; the loop reads nothing of the lot but the registry.
EventNames == {"vehicle_parked", "vehicle_unparked", "spot_freed"}
Handles == 1..NumHandles

\* self._callbacks.get(event, [])
get_callbacks(C, event) == IF event \in DOMAIN C THEN C[event] ELSE << >>

\* callback in self._callbacks[event]
is_registered(C, event, callback) ==
    /\ event \in DOMAIN C
    /\ \E k \in 1..Len(C[event]) : C[event][k] = callback

\* list.remove(callback): the first element equal to callback goes, the
\* elements behind it move up by one
list_remove(l, callback) ==
    LET k == CHOOSE k \in 1..Len(l) :
                 /\ l[k] = callback
                 /\ \A j \in 1..(k - 1) : l[j] # callback
    IN  SubSeq(l, 1, k - 1) \o SubSeq(l, k + 1, Len(l))

\* the number of registrations of all events
TotalRegistered(C) ==
    LET RECURSIVE Sum(_)
        Sum(E) == IF E = {} THEN 0
                  ELSE LET e == CHOOSE e \in E : TRUE
                       IN  Len(C[e]) + Sum(E \ {e})
    IN  Sum(DOMAIN C)

\* lot.register_callback(event, callback)
register_callback(C, event, callback) ==
    LET D == IF event \in DOMAIN C THEN C ELSE C @@ (event :> << >>)
    IN  [D EXCEPT ![event] = Append(@, callback)]

\* lot.unregister_callback(event, callback)
unregister_callback(C, event, callback) ==
    IF is_registered(C, event, callback)
    THEN [C EXCEPT ![event] = list_remove(@, callback)]
    ELSE C

RegistryCall(op, event, callback) ==
    [op |-> op, event |-> event, callback |-> callback,
     before |-> callbacks, err |-> "ok"]

\* the caller registers a callback between two calls of the lot
RegisterCallback ==
    /\ firing.pc # "loop"
    /\ TotalRegistered(callbacks) < MaxRegistered
    /\ \E event \in EventNames, callback \in Handles :
         /\ callbacks' = register_callback(callbacks, event, callback)
         /\ registry_call' = RegistryCall("register_callback", event, callback)
    /\ firing' = NoFiring
    /\ UNCHANGED <<lotvars, call, pre, snapshot, thvars>>

\* the caller unregisters a callback between two calls of the lot
UnregisterCallback ==
    /\ firing.pc # "loop"
    /\ \E event \in EventNames, callback \in Handles :
         /\ callbacks' = unregister_callback(callbacks, event, callback)
         /\ registry_call' =
                RegistryCall("unregister_callback", event, callback)
    /\ firing' = NoFiring
    /\ UNCHANGED <<lotvars, call, pre, snapshot, thvars>>

\* _trigger_event(event, ...): the for statement takes an iterator over the
\* list the registry holds for the event, not over a copy of it
TriggerEvent ==
    /\ firing.pc # "loop"
    /\ \E event \in EventNames :
         firing' = [pc |-> "loop", event |-> event, i |-> 0,
                    start |-> get_callbacks(callbacks, event),
                    invoked |-> << >>]
    /\ registry_call' = NoRegistryCall
    /\ UNCHANGED <<lotvars, call, pre, snapshot, thvars, callbacks>>

\* the iterator yields the element at its index of the list as it is now,
\* and the callback it yields is called
InvokeNext ==
    /\ firing.pc = "loop"
    /\ firing.i < Len(get_callbacks(callbacks, firing.event))
    /\ firing' = [firing EXCEPT
                    !.i = @ + 1,
                    !.invoked =
                        Append(@, get_callbacks(callbacks,
                                                firing.event)[firing.i + 1])]
    /\ UNCHANGED <<lotvars, call, pre, snapshot, thvars, registry_call>>

\* a callback that leaves the registry alone
CallbackPlain ==
    /\ InvokeNext
    /\ UNCHANGED callbacks

\* a callback that calls lot.unregister_callback(event, callback) for the
\* event being fired: for itself or for another handle
CallbackUnregisters ==
    /\ InvokeNext
    /\ \E callback \in Handles :
         callbacks' = unregister_callback(callbacks, firing.event, callback)

\* a callback that calls lot.register_callback(event, callback) for the
\* event being fired
CallbackRegisters ==
    /\ InvokeNext
    /\ TotalRegistered(callbacks) < MaxRegistered
    /\ \E callback \in Handles :
         callbacks' = register_callback(callbacks, firing.event, callback)

\* the iterator's index has reached the length of the list: the loop ends
TriggerReturn ==
    /\ firing.pc = "loop"
    /\ firing.i >= Len(get_callbacks(callbacks, firing.event))
    /\ firing' = [firing EXCEPT !.pc = "done"]
    /\ UNCHANGED <<lotvars, call, pre, snapshot, thvars, callbacks,
                   registry_call>>

NextCallbacks ==
    \/ RegisterCallback
    \/ UnregisterCallback
    \/ TriggerEvent
    \/ CallbackPlain
    \/ CallbackUnregisters
    \/ CallbackRegisters
    \/ TriggerReturn

SpecCallbacks == Init /\ [][NextCallbacks]_vars

\* ====================================================================
\* Properties
\* ====================================================================

Occupied(L, s) == ~is_available(L.parking_spots[s])
Registered(L) == DOMAIN L.parking_spots
Indexed(L) == DOMAIN L.vehicle_to_spot
\* the admission rule of a spot, as the claims state it
Admits(spot, vehicle) ==
    spot.kind = "standard" \/ vehicle.vehicle_type = "electric"

\* the last call was park_vehicle with a Vehicle whose id was not indexed
ParkedFresh ==
    /\ call.op = "park_vehicle"
    /\ call.vehicle \in Vehicles
    /\ call.vehicle.vehicle_id \notin Indexed(pre)
AutoAssign == ParkedFresh /\ call.spot_id = NoSpotId
ExplicitSpot == ParkedFresh /\ call.spot_id # NoSpotId

\* C1 - free-set consistency: at rest, every registered spot id is in
\* available_spots exactly when its spot has no occupant.
C1_FreeSetConsistency ==
    \A s \in Registered(Lot) :
        s \in available_spots <=> is_available(parking_spots[s])

\* C2 - index consistency: every vehicle id in vehicle_to_spot names a spot
\* that is occupied by a vehicle with that id.
C2_IndexConsistency ==
    \A v \in Indexed(Lot) :
        /\ vehicle_to_spot[v] \in Registered(Lot)
        /\ parking_spots[vehicle_to_spot[v]].vehicle.vehicle_id = v

\* C3 - all-or-nothing failure: a call that returns an error leaves the lot
\* exactly as it was before the call.
C3_AllOrNothing == call.err # "ok" => Lot = pre

\* C4 - serialization: at most one thread is inside a lot method's critical
\* section, and when a thread reaches the end of its method the lot and the
\* call's outcome are those of the whole method applied, in one piece, to
\* the lot as it was when the thread took the lock.
InCriticalSection(t) == th[t].pc \notin {"idle", "lock"}
MutualExclusion ==
    \A t1, t2 \in Threads :
        InCriticalSection(t1) /\ InCriticalSection(t2) => t1 = t2
Sequential(t) ==
    CASE th[t].op = "add_spot" ->
            add_spot(th[t].pre, th[t].spot_id, th[t].spot_type)
      [] th[t].op = "park_vehicle" ->
            park_vehicle(th[t].pre, th[t].vehicle, th[t].spot_id, th[t].spot)
      [] th[t].op = "unpark_vehicle" ->
            unpark_vehicle(th[t].pre, th[t].vehicle_id)
      [] th[t].op = "release_spot" ->
            release_spot(th[t].pre, th[t].spot_id)
      [] th[t].op = "take_snapshot" ->
            [lot |-> th[t].pre, err |-> "ok", spot_id |-> NoSpotId,
             events |-> << >>]
C4_Serialization ==
    /\ MutualExclusion
    /\ \A t \in Threads :
         /\ InCriticalSection(t) => lock_owner = t
         /\ th[t].pc = "unlock" =>
              /\ Lot = Sequential(t).lot
              /\ th[t].err = Sequential(t).err
\* a thread is between two writes of park_vehicle while another waits for
\* the lock
C4_Witness ==
    \E t1, t2 \in Threads :
        /\ t1 # t2
        /\ th[t1].pc = "park_index"
        /\ th[t2].pc = "lock"

\* C5 - auto-assign succeeds when an admissible free spot exists: a
\* park_vehicle without spot_id, for a vehicle not in vehicle_to_spot,
\* succeeds and leaves the vehicle in some spot whenever some registered
\* spot is unoccupied and admits the vehicle.
C5_AutoAssignSucceeds ==
    ( /\ AutoAssign
      /\ \E s \in Registered(pre) :
            /\ ~Occupied(pre, s)
            /\ Admits(pre.parking_spots[s], call.vehicle) )
    => /\ call.err = "ok"
       /\ \E s \in Registered(Lot) : parking_spots[s].vehicle = call.vehicle

\* C6 - exhaustion: a park_vehicle without spot_id, for a vehicle not in
\* vehicle_to_spot, fails with NoSpotsAvailable exactly when available_spots
\* is empty, which is the case when every registered spot is occupied; the
\* spot it selects was in available_spots when the call started.
C6_Exhaustion ==
    AutoAssign =>
        /\ call.err = "NoSpotsAvailable" <=> pre.available_spots = {}
        /\ (\A s \in Registered(pre) : Occupied(pre, s))
              => call.err = "NoSpotsAvailable"
        /\ call.err # "NoSpotsAvailable"
              => call.chosen \in pre.available_spots
\* two spots, both occupied, and a third vehicle is turned away
C6_Witness ==
    /\ AutoAssign
    /\ Cardinality(Registered(pre)) = 2
    /\ \A s \in Registered(pre) : Occupied(pre, s)
    /\ call.err = "NoSpotsAvailable"

\* C7 - double-park rejection: park_vehicle for a vehicle whose id is in
\* vehicle_to_spot fails with AlreadyParked whatever spot_id is, before any
\* spot check, and no vehicle id is ever the occupant of two spots.
C7_DoublePark ==
    /\ ( /\ call.op = "park_vehicle"
         /\ call.vehicle \in Vehicles
         /\ call.vehicle.vehicle_id \in Indexed(pre) )
       => call.err = "AlreadyParked"
    /\ \A s1, s2 \in Registered(Lot) :
         ( /\ Occupied(Lot, s1)
           /\ parking_spots[s1].vehicle.vehicle_id =
                 parking_spots[s2].vehicle.vehicle_id )
         => s1 = s2
\* an indexed vehicle asks for a spot that is registered and free, and for
\* one that is not registered: AlreadyParked both times
C7_Witness ==
    /\ call.op = "park_vehicle"
    /\ call.err = "AlreadyParked"
    /\ call.spot_id \in SpotIds
    /\ \/ call.spot_id \notin Registered(pre)
       \/ ~Occupied(pre, call.spot_id)
    /\ \E s \in Registered(pre) :
          pre.parking_spots[s].vehicle.vehicle_id = call.vehicle.vehicle_id

\* C8 - round trip: in every reachable state, a successful
\* park_vehicle(v, s) followed at once by unpark_vehicle(v.id) succeeds and
\* gives back exactly the lot before the park.
C8_RoundTrip ==
    \A v \in Vehicles, s \in SpotIdArgs :
        LET p == park_vehicle(Lot, v, s, NoSpotId)
            u == unpark_vehicle(p.lot, v.vehicle_id)
        IN  p.err = "ok" => u.err = "ok" /\ u.lot = Lot

\* C9 - electric admission: on a registered, unoccupied spot and for a
\* vehicle not in vehicle_to_spot, park_vehicle(v, s) succeeds for every
\* vehicle type on a standard spot; on an electric spot it succeeds exactly
\* for type "electric" and otherwise fails with UnsupportedVehicleType; no
\* electric spot ever holds a vehicle of another type.
C9_ElectricAdmission ==
    /\ ( /\ ExplicitSpot
         /\ call.spot_id \in Registered(pre)
         /\ ~Occupied(pre, call.spot_id) )
       => LET kind == pre.parking_spots[call.spot_id].kind
              electric == call.vehicle.vehicle_type = "electric"
          IN  /\ kind = "standard" => call.err = "ok"
              /\ kind = "electric" =>
                    /\ call.err = "ok" <=> electric
                    /\ ~electric => call.err = "UnsupportedVehicleType"
              /\ call.err = "ok" =>
                    parking_spots[call.spot_id].vehicle = call.vehicle
    /\ \A s \in Registered(Lot) :
         parking_spots[s].kind = "electric" /\ Occupied(Lot, s)
            => parking_spots[s].vehicle.vehicle_type = "electric"
\* a Sedan is turned away from a free electric spot
C9_Witness ==
    /\ ExplicitSpot
    /\ call.spot_id \in Registered(pre)
    /\ pre.parking_spots[call.spot_id].kind = "electric"
    /\ call.vehicle.vehicle_type = "Sedan"
    /\ call.err = "UnsupportedVehicleType"

\* C10 - explicit-spot error precedence, as claimed: for a vehicle not in
\* vehicle_to_spot, park_vehicle(v, s) fails with InvalidSpot whenever s is
\* not registered, with AlreadyOccupied whenever s is occupied, and with
\* UnsupportedVehicleType only for an unoccupied spot.
C10_Precedence_Original ==
    ExplicitSpot =>
        /\ call.spot_id \notin Registered(pre) => call.err = "InvalidSpot"
        /\ ( /\ call.spot_id \in Registered(pre)
             /\ Occupied(pre, call.spot_id) )
           => call.err = "AlreadyOccupied"
        /\ call.err = "UnsupportedVehicleType" =>
             /\ call.spot_id \in Registered(pre)
             /\ ~Occupied(pre, call.spot_id)

\* C10 - explicit-spot error precedence, amended: a negative s fails with
\* InvalidArgument, a non-negative s that is not registered fails with
\* InvalidSpot; an occupied s fails with AlreadyOccupied before the spot's
\* type check, so UnsupportedVehicleType is reported only for an unoccupied
\* spot.
C10_Precedence ==
    ExplicitSpot =>
        /\ call.spot_id < 0 => call.err = "InvalidArgument"
        /\ ( /\ call.spot_id >= 0
             /\ call.spot_id \notin Registered(pre) )
           => call.err = "InvalidSpot"
        /\ ( /\ call.spot_id \in Registered(pre)
             /\ Occupied(pre, call.spot_id) )
           => call.err = "AlreadyOccupied"
        /\ call.err = "UnsupportedVehicleType" =>
             /\ call.spot_id \in Registered(pre)
             /\ ~Occupied(pre, call.spot_id)
\* a Sedan asks for an occupied electric spot and is told AlreadyOccupied
C10_Witness ==
    /\ ExplicitSpot
    /\ call.spot_id \in Registered(pre)
    /\ pre.parking_spots[call.spot_id].kind = "electric"
    /\ Occupied(pre, call.spot_id)
    /\ call.vehicle.vehicle_type = "Sedan"
    /\ call.err = "AlreadyOccupied"

\* the last call was release_spot
Released == call.op = "release_spot"
\* what release_spot does when it succeeds
ReleaseEffect ==
    /\ call.spot_id \in Registered(pre)
    /\ Occupied(pre, call.spot_id)
    /\ Registered(Lot) = Registered(pre)
    /\ parking_spots[call.spot_id] =
         [pre.parking_spots[call.spot_id] EXCEPT !.vehicle = None]
    /\ available_spots = pre.available_spots \cup {call.spot_id}
    /\ call.events = trigger_event("spot_freed", call.spot_id, "")
    /\ vehicle_to_spot = pre.vehicle_to_spot
    /\ \A o \in Registered(pre) \ {call.spot_id} :
            parking_spots[o] = pre.parking_spots[o]

\* C13 - release_spot contract, as claimed: release_spot(s) fails with
\* InvalidSpot whenever s is not registered and with AlreadyEmpty when spot s
\* has no occupant; otherwise it succeeds, clears the occupant of s, adds s to
\* available_spots, fires spot_freed once and nothing else, and leaves
\* vehicle_to_spot and every other spot as they were.
C13_ReleaseContract_Original ==
    Released =>
        /\ call.spot_id \notin Registered(pre) => call.err = "InvalidSpot"
        /\ ( /\ call.spot_id \in Registered(pre)
             /\ ~Occupied(pre, call.spot_id) )
           => call.err = "AlreadyEmpty"
        /\ ( /\ call.spot_id \in Registered(pre)
             /\ Occupied(pre, call.spot_id) )
           => call.err = "ok"
        /\ call.err = "ok" => ReleaseEffect
        /\ call.err # "ok" => call.events = << >>

\* C13 - release_spot contract, amended: a negative s fails with
\* InvalidArgument and a non-negative s that is not registered fails with
\* InvalidSpot; a registered s without occupant fails with AlreadyEmpty;
\* otherwise the call succeeds, clears the occupant of s, adds s to
\* available_spots, fires spot_freed once and nothing else, and leaves
\* vehicle_to_spot and every other spot as they were.
C13_ReleaseContract ==
    Released =>
        /\ call.spot_id < 0 => call.err = "InvalidArgument"
        /\ ( /\ call.spot_id >= 0
             /\ call.spot_id \notin Registered(pre) )
           => call.err = "InvalidSpot"
        /\ ( /\ call.spot_id \in Registered(pre)
             /\ ~Occupied(pre, call.spot_id) )
           => call.err = "AlreadyEmpty"
        /\ ( /\ call.spot_id \in Registered(pre)
             /\ Occupied(pre, call.spot_id) )
           => call.err = "ok"
        /\ call.err = "ok" => ReleaseEffect
        /\ call.err # "ok" => call.events = << >>
\* a release that evicts an indexed vehicle while another spot is occupied
C13_Witness ==
    /\ Released
    /\ call.err = "ok"
    /\ pre.parking_spots[call.spot_id].vehicle.vehicle_id \in Indexed(Lot)
    /\ \E o \in Registered(Lot) \ {call.spot_id} : Occupied(Lot, o)

C15_AddSpotValidation ==
    ( /\ call.op = "add_spot"
      /\ \/ call.spot_id < 0
         \/ call.spot_type \notin {"standard", "electric"} )
    => /\ call.err = "InvalidArgument"
       /\ Lot = pre

\* C19 - occupant-to-index consistency: the occupant of every occupied spot
\* s is in vehicle_to_spot and mapped to s, and no vehicle id occupies two
\* spots.
C19_OccupantIndexed ==
    /\ \A s \in Registered(Lot) :
        Occupied(Lot, s) =>
            /\ parking_spots[s].vehicle.vehicle_id \in Indexed(Lot)
            /\ vehicle_to_spot[parking_spots[s].vehicle.vehicle_id] = s
    /\ \A s1, s2 \in Registered(Lot) :
        ( /\ Occupied(Lot, s1)
          /\ Occupied(Lot, s2)
          /\ parking_spots[s1].vehicle.vehicle_id =
               parking_spots[s2].vehicle.vehicle_id )
        => s1 = s2
\* a failed call in a lot with an occupied spot and an entry left behind by
\* release_spot
C19_Witness ==
    /\ call.err \notin {"ok"}
    /\ call.op # "init"
    /\ \E s \in Registered(Lot) : Occupied(Lot, s)
    /\ \E v \in Indexed(Lot) : ~Occupied(Lot, vehicle_to_spot[v])

\* C20 - the free set never contains an occupied spot: every member of
\* available_spots is a registered id whose spot has no occupant, and a
\* park_vehicle without spot_id never fails with AlreadyOccupied or
\* InvalidSpot and never takes an occupied or unregistered spot.
C20_FreeSetUnoccupied ==
    /\ \A s \in available_spots :
        /\ s \in Registered(Lot)
        /\ is_available(parking_spots[s])
    /\ ( /\ call.op = "park_vehicle"
         /\ call.spot_id = NoSpotId )
       => /\ call.err \notin {"AlreadyOccupied", "InvalidSpot"}
          /\ call.chosen # NoSpotId =>
                /\ call.chosen \in Registered(pre)
                /\ ~Occupied(pre, call.chosen)
\* an auto-assigned park that succeeds next to an occupied spot
C20_Witness ==
    /\ AutoAssign
    /\ call.err = "ok"
    /\ \E o \in Registered(pre) : Occupied(pre, o)

\* the thread is inside a callback that _trigger_event has called
InCallback(t) ==
    th[t].pc \in {"callback", "callback_snapshot"}
\* the event whose callbacks the thread is running
Firing(t) == th[t].events[Len(th[t].events)]

\* C11 - unpark event order: when a successful unpark_vehicle(vehicle_id)
\* reaches its return it has fired spot_freed once and then vehicle_unparked
\* once and nothing else, both for the spot that held the vehicle with that
\* id; no vehicle_unparked is fired without spot_freed right before it.
C11_UnparkEvents ==
    \A t \in Threads :
        /\ ( /\ th[t].op = "unpark_vehicle"
             /\ th[t].pc = "unlock"
             /\ th[t].err = "ok" )
           => /\ th[t].events =
                    trigger_event("spot_freed", th[t].spot, "")
                    \o trigger_event("vehicle_unparked", th[t].spot,
                                     th[t].vehicle_id)
              /\ th[t].pre.parking_spots[th[t].spot].vehicle.vehicle_id
                    = th[t].vehicle_id
        /\ \A k \in 1..Len(th[t].events) :
             th[t].events[k].event = "vehicle_unparked" =>
                /\ k > 1
                /\ th[t].events[k - 1].event = "spot_freed"
                /\ th[t].events[k - 1].spot_id = th[t].events[k].spot_id

\* C12 - events follow completed state changes: a successful park_vehicle
\* has fired vehicle_parked once when it returns; while a callback runs, the
\* lot is already what the whole call makes of it (for vehicle_parked: the
\* spot holds the vehicle, vehicle_to_spot maps its id to the spot and the
\* spot is not in available_spots); a call that fails has fired nothing.
C12_EventsAfterState ==
    \A t \in Threads :
        /\ ( /\ th[t].op = "park_vehicle"
             /\ th[t].pc = "unlock"
             /\ th[t].err = "ok" )
           => th[t].events =
                trigger_event("vehicle_parked", th[t].spot,
                              th[t].vehicle.vehicle_id)
        /\ InCallback(t) =>
             /\ Lot = Sequential(t).lot
             /\ Firing(t).event = "vehicle_parked" =>
                  /\ parking_spots[th[t].spot].vehicle = th[t].vehicle
                  /\ th[t].vehicle.vehicle_id \in Indexed(Lot)
                  /\ vehicle_to_spot[th[t].vehicle.vehicle_id] = th[t].spot
                  /\ th[t].spot \notin available_spots
             /\ Firing(t).event \in {"spot_freed", "vehicle_unparked"} =>
                  /\ is_available(parking_spots[th[t].spot])
                  /\ th[t].spot \in available_spots
                  /\ th[t].op = "unpark_vehicle" =>
                        th[t].vehicle_id \notin Indexed(Lot)
        /\ ( th[t].pc = "unlock" /\ th[t].err # "ok" )
           => th[t].events = << >>
\* a callback of vehicle_parked is running
C12_Witness ==
    \E t \in Threads :
        /\ th[t].pc = "callback"
        /\ Firing(t).event = "vehicle_parked"

\* C16 - callbacks run inside the critical section: from the firing of an
\* event to the return of its last callback the firing thread owns the lock,
\* and as long as a thread is inside a method every other thread is outside
\* every method or blocked at its lock.
C16_CallbacksInsideLock ==
    \A t \in Threads :
        /\ ( th[t].pc = "callbacks" \/ InCallback(t) )
           => /\ lock_owner = t
              /\ lock_count >= 2
        /\ InCriticalSection(t) =>
             \A u \in Threads \ {t} : th[u].pc \in {"idle", "lock"}
\* the last callback of spot_freed runs in one thread during an
\* unpark_vehicle while another thread waits for the lock
C16_Witness ==
    \E t, u \in Threads :
        /\ t # u
        /\ th[t].op = "unpark_vehicle"
        /\ th[t].pc = "callback"
        /\ th[t].i = MaxCallbacks
        /\ Firing(t).event = "spot_freed"
        /\ th[u].pc = "lock"

C18_SnapshotIndependence ==
    [][ /\ call'.op = "take_snapshot" =>
             /\ snapshot'.spots = parking_spots
             /\ Lot' = Lot
        /\ call'.op \in {"add_spot", "park_vehicle", "unpark_vehicle",
                          "release_spot"} =>
             snapshot' = snapshot
        /\ call'.op = "snapshot_mutation" => Lot' = Lot ]_vars
\* the lot has just emptied a spot that the snapshot still shows occupied
C18_Witness ==
    /\ snapshot.taken
    /\ call.op \in {"unpark_vehicle", "release_spot"}
    /\ \E k \in DOMAIN snapshot.spots :
         /\ ~is_available(snapshot.spots[k])
         /\ is_available(parking_spots[k])

\* C21 - unpark_vehicle removes only the named vehicle: unpark_vehicle(id)
\* clears no spot whose occupant, when the call started, had another id, and
\* when it succeeds it has cleared a spot whose occupant had that id.
C21_UnparkOnlyNamed ==
    call.op = "unpark_vehicle" =>
        /\ \A s \in Registered(pre) :
             ( Occupied(pre, s) /\ ~Occupied(Lot, s) ) =>
                pre.parking_spots[s].vehicle.vehicle_id = call.vehicle_id
        /\ call.err = "ok" =>
             \E s \in Registered(pre) :
                /\ Occupied(pre, s)
                /\ ~Occupied(Lot, s)
                /\ pre.parking_spots[s].vehicle.vehicle_id = call.vehicle_id

\* C22 - complete notification under re-entrant callbacks: when a firing of
\* an event has ended, the callbacks invoked begin with the callbacks that
\* were registered for the event when it started, each once and in
\* registration order, whatever the callbacks registered or unregistered
\* meanwhile; and unregister_callback of a handle that is not registered for
\* the event changes nothing and raises no error.
C22_CompleteNotification ==
    /\ firing.pc = "done" =>
         /\ Len(firing.invoked) >= Len(firing.start)
         /\ SubSeq(firing.invoked, 1, Len(firing.start)) = firing.start
    /\ ( /\ registry_call.op = "unregister_callback"
         /\ ~is_registered(registry_call.before, registry_call.event,
                           registry_call.callback) ) =>
         /\ callbacks = registry_call.before
         /\ registry_call.err = "ok"
====
